---- MODULE Spec2Model ----
(***************************************************************************)
(* Telecom KPI dashboard (src/app.py).                                     *)
(*                                                                         *)
(* The dashboard is a script that is run from top to bottom once when the  *)
(* page is opened and once more after every widget interaction.  A run     *)
(* loads the (cached) tables, prepares them, reads the sidebar widgets,    *)
(* filters the tables and calls the aggregator of the selected view.       *)
(* A state of the model is the state at the end of a run; an action is one *)
(* widget interaction together with the whole run it triggers.             *)
(*                                                                         *)
(* Timestamps are whole seconds since an epoch, dates are whole days.      *)
(* Floating point results are modelled as exact fractions num/den in       *)
(* lowest terms; 0/0 is NaN.                                               *)
(***************************************************************************)
EXTENDS Integers, Sequences, FiniteSets, TLC

VARIABLES
    subscribers,          \* prepared SUBSCRIBERS table (module level, line 140-155)
    bills,                \* prepared BILLS table
    tickets,              \* prepared TICKETS table
    now,                  \* datetime.now() of the run, in seconds
    date_range,           \* sidebar widgets (lines 160-202)
    cities,
    plan_types,
    plan_names,
    ticket_categories,
    subscriber_status,
    view_type,
    filtered_subscribers, \* lines 205-222
    filtered_bills,
    filtered_tickets,
    exec_kpis,            \* line 230, NoKpis when the run showed the other view
    ops_kpis,             \* line 374
    series,               \* argument of the last flag_anomalies call, lines 66-72
    anomalies             \* what that call returned

vars == <<subscribers, bills, tickets, now, date_range, cities, plan_types,
          plan_names, ticket_categories, subscriber_status, view_type,
          filtered_subscribers, filtered_bills, filtered_tickets,
          exec_kpis, ops_kpis, series, anomalies>>

----------------------------------------------------------------------------
(* Bounds of the model *)

MaxSubs == 2
MaxBills == 2
MaxTickets == 2
MaxDay == 2
MaxSeries == 4
MaxMonths == 38

(* Units *)
SecondsPerHour == 3600
SecondsPerDay == 86400
DaysPerMonth == 30

----------------------------------------------------------------------------
(* Floating point values as exact fractions *)

RECURSIVE GCD(_, _)
GCD(a, b) == IF b = 0 THEN a ELSE GCD(b, a % b)

Abs(n) == IF n < 0 THEN -n ELSE n

NaN == [num |-> 0, den |-> 0]

\* n / d as Python's true division of two finite numbers, d # 0;
\* 0 / 0 stands for the NaN pandas returns for an empty mean.
Frac(n, d) ==
    IF d = 0 THEN NaN
    ELSE LET g == GCD(Abs(n), Abs(d))
             s == IF d < 0 THEN -1 ELSE 1
         IN  [num |-> (s * n) \div g, den |-> (s * d) \div g]

Num(n) == Frac(n, 1)

IsNaN(x) == x.den = 0

RatSub(x, y) ==
    IF IsNaN(x) \/ IsNaN(y) THEN NaN
    ELSE Frac(x.num * y.den - y.num * x.den, x.den * y.den)

RatAdd(x, y) ==
    IF IsNaN(x) \/ IsNaN(y) THEN NaN
    ELSE Frac(x.num * y.den + y.num * x.den, x.den * y.den)

\* IEEE comparison: FALSE as soon as one side is NaN
RatLeq(x, y) == ~IsNaN(x) /\ ~IsNaN(y) /\ x.num * y.den <= y.num * x.den

RatLt(x, y) == ~IsNaN(x) /\ ~IsNaN(y) /\ x.num * y.den < y.num * x.den

RatMul(x, y) ==
    IF IsNaN(x) \/ IsNaN(y) THEN NaN
    ELSE Frac(x.num * y.num, x.den * y.den)

----------------------------------------------------------------------------
(* DataFrames: a set of column names and a sequence of rows *)

Table(cols, rows) == [columns |-> cols, rows |-> rows]

Len_(table) == Len(table.rows)

RECURSIVE MaskRows(_, _)
MaskRows(rows, mask) ==
    IF rows = <<>> THEN <<>>
    ELSE (IF Head(mask) THEN <<Head(rows)>> ELSE <<>>)
            \o MaskRows(Tail(rows), Tail(mask))

\* df[mask], mask a boolean series over the rows of df: a new table with the
\* rows the mask selects
BooleanMask(table, mask) == Table(table.columns, MaskRows(table.rows, mask))

\* df[col] = values, a series over the rows of df: the column is added (or
\* overwritten) in every row
SetColumn(table, col, values) ==
    Table(table.columns \cup {col},
          [i \in DOMAIN table.rows |-> (col :> values[i]) @@ table.rows[i]])

\* df[col].unique()
Unique(table, col) == {table.rows[i][col] : i \in DOMAIN table.rows}

RECURSIVE SumSeq(_, _)
SumSeq(rows, col) ==
    IF rows = <<>> THEN 0 ELSE Head(rows)[col] + SumSeq(Tail(rows), col)

\* df[col].sum(); 0 for an empty table
ColumnSum(table, col) == SumSeq(table.rows, col)

\* series.dt.date
DateOf(ts) == ts \div SecondsPerDay

NaT == -1

----------------------------------------------------------------------------
(* Service tier classifier, lines 54-64 *)

\* calculate_service_tier with the tenure thresholds inclusive
calculate_service_tier_inclusive(plan_type, plan_name, tenure_months) ==
    IF plan_type = "Postpaid"
    THEN IF plan_name = "Unlimited" \/ tenure_months >= 36
         THEN "Priority 1 (Critical)"
         ELSE IF plan_name = "Premium" \/ tenure_months >= 12
              THEN "Priority 2 (High)"
              ELSE "Priority 3 (Standard)"
    ELSE "Priority 4 (Basic)"

calculate_service_tier(plan_type, plan_name, tenure_months) ==
    IF plan_type = "Postpaid"
    THEN IF plan_name = "Unlimited" \/ tenure_months > 36
         THEN "Priority 1 (Critical)"
         ELSE IF plan_name = "Premium" \/ tenure_months > 12
              THEN "Priority 2 (High)"
              ELSE "Priority 3 (Standard)"
    ELSE "Priority 4 (Basic)"

\* TenureMonths as the months within the running year of tenure
TenureMonthsOfYear(t, signup_date) ==
    (((t - signup_date) \div SecondsPerDay) \div DaysPerMonth) % 12

\* (datetime.now() - x['signup_date']).days // 30, line 153
TenureMonths(t, signup_date) == ((t - signup_date) \div SecondsPerDay) \div DaysPerMonth

\* subscribers['service_tier'] = subscribers.apply(...), lines 149-155
AddServiceTier(subs, t) ==
    LET Tier(x) == calculate_service_tier(x.plan_type, x.plan_name,
                                          TenureMonths(t, x.signup_date))
    IN  SetColumn(subs, "service_tier",
                  [i \in DOMAIN subs.rows |-> Tier(subs.rows[i])])

----------------------------------------------------------------------------
(* Anomaly flags, lines 66-72.  A series is a sequence of integers. *)

RECURSIVE Insert(_, _)
Insert(x, sorted) ==
    IF sorted = <<>> THEN <<x>>
    ELSE IF x <= Head(sorted) THEN <<x>> \o sorted
         ELSE <<Head(sorted)>> \o Insert(x, Tail(sorted))

RECURSIVE Sorted(_)
\* the values of the series in ascending order
Sorted(s) == IF s = <<>> THEN <<>> ELSE Insert(Head(s), Sorted(Tail(s)))

\* series.quantile(qn / qd), interpolation 'linear': with the sorted values
\* numbered from 0, the value at position (n - 1) * qn / qd, interpolated
\* between its two neighbours; NaN for an empty series
Quantile(s, qn, qd) ==
    IF s = <<>> THEN NaN
    ELSE LET v == Sorted(s)
             h == (Len(s) - 1) * qn
             lo == h \div qd
             r == h % qd
             below == v[lo + 1]
             above == IF r = 0 THEN below ELSE v[lo + 2]
         IN  Frac(below * qd + (above - below) * r, qd)

\* line 71
UpperBound(s) ==
    LET Q1 == Quantile(s, 1, 4)
        Q3 == Quantile(s, 3, 4)
        IQR == RatSub(Q3, Q1)
    IN  RatAdd(Q3, RatMul(Frac(3, 2), IQR))

\* flag_anomalies with the bound itself flagged
flag_anomalies_inclusive(s) ==
    [i \in DOMAIN s |-> RatLeq(UpperBound(s), Num(s[i]))]

\* line 72: series > upper_bound, a boolean series
flag_anomalies(s) ==
    [i \in DOMAIN s |-> RatLt(UpperBound(s), Num(s[i]))]

----------------------------------------------------------------------------
(* Executive KPIs, lines 74-103 *)

\* len(subscribers[subscribers['subscriber_status'] == 'Active']), lines 82, 93
ActiveCount(subs) ==
    Len_(BooleanMask(subs,
            [i \in DOMAIN subs.rows |-> subs.rows[i].subscriber_status = "Active"]))

\* line 79
total_revenue(bls) == Num(ColumnSum(bls, "bill_amount"))

\* arpu over all the subscribers instead of the Active ones
arpu_per_subscriber(subs, bls) ==
    IF Len_(subs) > 0
    THEN Frac(ColumnSum(bls, "bill_amount"), Len_(subs))
    ELSE Num(0)

\* lines 82-83
arpu(subs, bls) ==
    LET active_subs == ActiveCount(subs)
    IN  IF active_subs > 0
        THEN Frac(ColumnSum(bls, "bill_amount"), active_subs)
        ELSE Num(0)

\* prepaid_rev over every bill of a listed subscriber, whatever the plan type
prepaid_rev_any_plan(subs, bls) ==
    LET ids == Unique(subs, "subscriber_id")
        isin == [i \in DOMAIN bls.rows |-> bls.rows[i].subscriber_id \in ids]
    IN  ColumnSum(BooleanMask(bls, isin), "bill_amount")

\* lines 86-88
prepaid_rev(subs, bls) ==
    LET prepaid == BooleanMask(subs,
                [i \in DOMAIN subs.rows |-> subs.rows[i].plan_type = "Prepaid"])
        ids == Unique(prepaid, "subscriber_id")
        isin == [i \in DOMAIN bls.rows |-> bls.rows[i].subscriber_id \in ids]
    IN  ColumnSum(BooleanMask(bls, isin), "bill_amount")

\* line 89
prepaid_pct(subs, bls) ==
    IF ColumnSum(bls, "bill_amount") > 0
    THEN Frac(prepaid_rev(subs, bls) * 100, ColumnSum(bls, "bill_amount"))
    ELSE Num(0)

\* line 90
postpaid_pct(subs, bls) == RatSub(Num(100), prepaid_pct(subs, bls))

\* retention_ratio counting the subscribers that are not Active
retention_ratio_inactive(subs) ==
    IF Len_(subs) > 0
    THEN Frac((Len_(subs) - ActiveCount(subs)) * 100, Len_(subs))
    ELSE Num(0)

\* retention_ratio without the guard on an empty table
retention_ratio_unguarded(subs) == Frac(ActiveCount(subs) * 100, Len_(subs))

\* lines 93-95
retention_ratio(subs) ==
    LET active_count == ActiveCount(subs)
        total_count == Len_(subs)
    IN  IF total_count > 0 THEN Frac(active_count * 100, total_count) ELSE Num(0)

\* line 98
overdue_revenue(bls) ==
    LET overdue == [i \in DOMAIN bls.rows |-> bls.rows[i].payment_status = "Overdue"]
    IN  Num(ColumnSum(BooleanMask(bls, overdue), "bill_amount"))

\* line 101
credit_adjustments(bls) ==
    IF "credit_adjustment" \in bls.columns
    THEN Num(ColumnSum(bls, "credit_adjustment"))
    ELSE Num(0)

calculate_executive_kpis(subs, bls, tks) ==
    [total_revenue      |-> total_revenue(bls),
     arpu               |-> arpu(subs, bls),
     prepaid_pct        |-> prepaid_pct(subs, bls),
     postpaid_pct       |-> postpaid_pct(subs, bls),
     retention_ratio    |-> retention_ratio(subs),
     overdue_revenue    |-> overdue_revenue(bls),
     credit_adjustments |-> credit_adjustments(bls)]

----------------------------------------------------------------------------
(* Manager / operations KPIs, lines 105-137 *)

\* (resolution_date - ticket_date).dt.total_seconds() / 3600; NaT gives NaN
ResolutionHours(r) ==
    IF r.resolution_date = NaT \/ r.ticket_date = NaT
    THEN NaN
    ELSE Frac(r.resolution_date - r.ticket_date, SecondsPerHour)

\* tickets[tickets['status'] == 'Resolved'], line 113
ResolvedTickets(tks) ==
    BooleanMask(tks, [i \in DOMAIN tks.rows |-> tks.rows[i].status = "Resolved"])

\* SlaCompliant with the boundary exclusive
SlaCompliantStrict(tks) ==
    LET resolved_tickets == ResolvedTickets(tks)
        Within(r) == /\ RatLeq(ResolutionHours(r), Num(r.sla_target_hours))
                     /\ ResolutionHours(r) # Num(r.sla_target_hours)
    IN  BooleanMask(resolved_tickets,
            [i \in DOMAIN resolved_tickets.rows |-> Within(resolved_tickets.rows[i])])

\* lines 114-116
SlaCompliant(tks) ==
    LET resolved_tickets == ResolvedTickets(tks)
        Within(r) == RatLeq(ResolutionHours(r), Num(r.sla_target_hours))
    IN  BooleanMask(resolved_tickets,
            [i \in DOMAIN resolved_tickets.rows |-> Within(resolved_tickets.rows[i])])

\* line 117
sla_compliance(tks) ==
    IF Len_(ResolvedTickets(tks)) > 0
    THEN Frac(Len_(SlaCompliant(tks)) * 100, Len_(ResolvedTickets(tks)))
    ELSE Num(0)

\* resolved_tickets['resolution_hours'] = ..., lines 120-122: the column is
\* set on resolved_tickets, which the boolean mask made a copy of
WithResolutionHours(tks) ==
    LET resolved_tickets == ResolvedTickets(tks)
    IN  SetColumn(resolved_tickets, "resolution_hours",
            [i \in DOMAIN resolved_tickets.rows |->
                ResolutionHours(resolved_tickets.rows[i])])

RECURSIVE SumNotNaN(_, _)
SumNotNaN(rows, col) ==
    IF rows = <<>> THEN Num(0)
    ELSE IF IsNaN(Head(rows)[col]) THEN SumNotNaN(Tail(rows), col)
         ELSE RatAdd(Head(rows)[col], SumNotNaN(Tail(rows), col))

\* series.mean(): NaN entries are skipped, the mean of nothing is NaN
Mean(table, col) ==
    LET n == Len_(BooleanMask(table,
                    [i \in DOMAIN table.rows |-> ~IsNaN(table.rows[i][col])]))
        s == SumNotNaN(table.rows, col)
    IN  Frac(s.num, s.den * n)

\* line 123
avg_resolution_time(tks) == Mean(WithResolutionHours(tks), "resolution_hours")

\* lines 126-127
ticket_backlog(tks) ==
    LET open == [i \in DOMAIN tks.rows |->
                    tks.rows[i].status \in {"Open", "In Progress", "Escalated"}]
    IN  Num(Len_(BooleanMask(tks, open)))

\* lines 130-131
escalation_rate(tks) ==
    LET escalated == [i \in DOMAIN tks.rows |-> tks.rows[i].status = "Escalated"]
    IN  IF Len_(tks) > 0
        THEN Frac(Len_(BooleanMask(tks, escalated)) * 100, Len_(tks))
        ELSE Num(0)

\* lines 134-135
network_issue_ratio(tks) ==
    LET network == [i \in DOMAIN tks.rows |->
                       tks.rows[i].ticket_category = "Network Issue"]
    IN  IF Len_(tks) > 0
        THEN Frac(Len_(BooleanMask(tks, network)) * 100, Len_(tks))
        ELSE Num(0)

\* TicketsAfterCall if resolved_tickets shared its data with the caller's
\* table: the new column shows in the Resolved rows of `tickets`
TicketsAfterCallShared(tks) ==
    LET Hrs(r) == IF r.status = "Resolved" THEN ResolutionHours(r) ELSE NaN
    IN  SetColumn(tks, "resolution_hours",
                  [i \in DOMAIN tks.rows |-> Hrs(tks.rows[i])])

\* The caller's table when calculate_manager_kpis returns: every statement of
\* the function reads `tickets` or writes to the copy resolved_tickets
TicketsAfterCall(tks) == tks

calculate_manager_kpis(tks) ==
    [kpis |-> [total_tickets       |-> Num(Len_(tks)),
               sla_compliance      |-> sla_compliance(tks),
               avg_resolution_time |-> avg_resolution_time(tks),
               ticket_backlog      |-> ticket_backlog(tks),
               escalation_rate     |-> escalation_rate(tks),
               network_issue_ratio |-> network_issue_ratio(tks)],
     tickets |-> TicketsAfterCall(tks)]

----------------------------------------------------------------------------
(* Apply filters, lines 204-222 *)

FilterSubscribers(subs, c, pt, pn, ss) ==
    LET Keep(r) == /\ r.city \in c
                   /\ r.plan_type \in pt
                   /\ r.plan_name \in pn
                   /\ r.subscriber_status \in ss
    IN  BooleanMask(subs, [i \in DOMAIN subs.rows |-> Keep(subs.rows[i])])

\* FilterBills looking the bill's subscriber up in the unfiltered table
FilterBillsAllSubscribers(bls, fsubs, dr) ==
    LET Keep(b) == /\ b.subscriber_id \in Unique(subscribers, "subscriber_id")
                   /\ DateOf(b.billing_date) >= dr[1]
                   /\ DateOf(b.billing_date) <= dr[2]
    IN  BooleanMask(bls, [i \in DOMAIN bls.rows |-> Keep(bls.rows[i])])

FilterBills(bls, fsubs, dr) ==
    LET Keep(b) == /\ b.subscriber_id \in Unique(fsubs, "subscriber_id")
                   /\ DateOf(b.billing_date) >= dr[1]
                   /\ DateOf(b.billing_date) <= dr[2]
    IN  BooleanMask(bls, [i \in DOMAIN bls.rows |-> Keep(bls.rows[i])])

FilterTickets(tks, dr, tc) ==
    LET Keep(r) == /\ DateOf(r.ticket_date) >= dr[1]
                   /\ DateOf(r.ticket_date) <= dr[2]
                   /\ r.ticket_category \in tc
    IN  BooleanMask(tks, [i \in DOMAIN tks.rows |-> Keep(tks.rows[i])])

----------------------------------------------------------------------------
(* One run of the script with the given widget values, lines 139-374 *)

NoKpis == [computed |-> FALSE]

\* a run of the script at time t
RunAt(t, dr, c, pt, pn, tc, ss, vt) ==
    LET subs == AddServiceTier(subscribers, t)
        fs == FilterSubscribers(subs, c, pt, pn, ss)
        fb == FilterBills(bills, fs, dr)
        ft == FilterTickets(tickets, dr, tc)
    IN  /\ subscribers' = subs
        /\ now' = t
        /\ UNCHANGED <<bills, tickets, series, anomalies>>
        /\ date_range' = dr
        /\ cities' = c
        /\ plan_types' = pt
        /\ plan_names' = pn
        /\ ticket_categories' = tc
        /\ subscriber_status' = ss
        /\ view_type' = vt
        /\ filtered_subscribers' = fs
        /\ filtered_bills' = fb
        /\ IF vt = "Executive View"
           THEN /\ exec_kpis' = calculate_executive_kpis(fs, fb, ft)
                /\ ops_kpis' = NoKpis
                /\ filtered_tickets' = ft
           ELSE /\ exec_kpis' = NoKpis
                /\ ops_kpis' = calculate_manager_kpis(ft).kpis
                /\ filtered_tickets' = calculate_manager_kpis(ft).tickets

\* a run triggered by a widget, the clock taken as standing still
Run(dr, c, pt, pn, tc, ss, vt) == RunAt(now, dr, c, pt, pn, tc, ss, vt)

\* st.sidebar.date_input: any range of dates, start first
DateRanges == {dr \in (1..MaxDay) \X (1..MaxDay) : dr[1] <= dr[2]}

ChangeDateRange ==
    \E dr \in DateRanges \ {date_range} :
        Run(dr, cities, plan_types, plan_names, ticket_categories,
            subscriber_status, view_type)

ChangeCities ==
    \E c \in (SUBSET Unique(subscribers, "city")) \ {cities} :
        Run(date_range, c, plan_types, plan_names, ticket_categories,
            subscriber_status, view_type)

ChangePlanTypes ==
    \E pt \in (SUBSET Unique(subscribers, "plan_type")) \ {plan_types} :
        Run(date_range, cities, pt, plan_names, ticket_categories,
            subscriber_status, view_type)

ChangePlanNames ==
    \E pn \in (SUBSET Unique(subscribers, "plan_name")) \ {plan_names} :
        Run(date_range, cities, plan_types, pn, ticket_categories,
            subscriber_status, view_type)

ChangeTicketCategories ==
    \E tc \in (SUBSET Unique(tickets, "ticket_category")) \ {ticket_categories} :
        Run(date_range, cities, plan_types, plan_names, tc,
            subscriber_status, view_type)

ChangeSubscriberStatus ==
    \E ss \in (SUBSET Unique(subscribers, "subscriber_status")) \ {subscriber_status} :
        Run(date_range, cities, plan_types, plan_names, ticket_categories,
            ss, view_type)

ChangeView ==
    \E vt \in {"Executive View", "Manager View"} \ {view_type} :
        Run(date_range, cities, plan_types, plan_names, ticket_categories,
            subscriber_status, vt)

----------------------------------------------------------------------------
(* The tables load_data() returns, lines 38-52 and 143-146 *)

Day(d) == d * SecondsPerDay
Hours(h) == h * SecondsPerHour

Today == 1300
TenureDays == {0, 360, 390, 1080, 1110, 1200}
PlanTypes == {"Prepaid", "Postpaid", "Hybrid"}
PlanNames == {"Unlimited", "Premium", "Standard"}

SubscriberColumns ==
    {"subscriber_id", "city", "plan_type", "plan_name", "subscriber_status",
     "signup_date"}
BillColumns ==
    {"subscriber_id", "billing_date", "bill_amount", "payment_status",
     "credit_adjustment"}
TicketColumns ==
    {"ticket_date", "resolution_date", "status", "sla_target_hours",
     "ticket_category"}

Sub(city, pt, pn, st, tenure_days) ==
    [city |-> city, plan_type |-> pt, plan_name |-> pn,
     subscriber_status |-> st, signup_date |-> Day(Today - tenure_days)]

Bill(sid, ts, amount, ps, credit) ==
    [subscriber_id |-> sid, billing_date |-> ts, bill_amount |-> amount,
     payment_status |-> ps, credit_adjustment |-> credit]

Ticket(ts, secs, st, target, cat) ==
    [ticket_date |-> ts,
     resolution_date |-> IF secs = NaT THEN NaT ELSE ts + secs,
     status |-> st, sla_target_hours |-> target, ticket_category |-> cat]

\* subscribers that differ in every filter dimension
SubscriberPool ==
    << Sub("Dubai", "Prepaid", "Standard", "Active", 100),
       Sub("Dubai", "Postpaid", "Premium", "Churned", 400),
       Sub("Abu Dhabi", "Postpaid", "Standard", "Active", 1200) >>

\* the subscribers of the executive inputs: plan type and status differ
ExecSubscribers ==
    << Sub("Dubai", "Prepaid", "Standard", "Active", 100),
       Sub("Dubai", "Postpaid", "Standard", "Active", 100),
       Sub("Dubai", "Postpaid", "Standard", "Churned", 100) >>

\* subscriber 9 is in no subscribers table
BillPool ==
    << Bill(1, Day(1), 10, "Paid", 5),
       Bill(1, Day(2) + Hours(18), 0, "Overdue", 0),
       Bill(2, Day(1), 30, "Overdue", 5),
       Bill(3, Day(2), 30, "Paid", 0),
       Bill(9, Day(1), 30, "Paid", 0) >>

TicketPool ==
    << Ticket(Day(1) + Hours(9), Hours(2), "Resolved", 4, "Billing"),
       Ticket(Day(1) + Hours(9), Hours(4), "Resolved", 4, "Network Issue"),
       Ticket(Day(1) + Hours(9), Hours(4) + 1, "Resolved", 4, "Billing"),
       Ticket(Day(1) + Hours(9), Hours(6), "Resolved", 4, "Billing"),
       Ticket(Day(1) + Hours(9), NaT, "Resolved", 4, "Billing"),
       Ticket(Day(2) + Hours(23), NaT, "Open", 4, "Billing"),
       Ticket(Day(1) + Hours(9), NaT, "Escalated", 8, "Network Issue") >>

\* the non-decreasing index sequences of length k over 1..n
SortedSeqs(n, k) ==
    {s \in [1..k -> 1..n] : \A i \in 1..(k - 1) : s[i] <= s[i + 1]}

\* the row sequences of 1..max rows of the pool, up to the order of the rows
RowsOver(pool, max) ==
    UNION {{[i \in 1..k |-> pool[s[i]]] : s \in SortedSeqs(Len(pool), k)} :
           k \in 1..max}

\* subscriber_id is the unique key of SUBSCRIBERS.csv
WithIds(rows) == [i \in DOMAIN rows |-> ("subscriber_id" :> i) @@ rows[i]]

WithoutCredit(rows) ==
    [i \in DOMAIN rows |->
        [col \in BillColumns \ {"credit_adjustment"} |-> rows[i][col]]]

DefaultSubscribers ==
    Table(SubscriberColumns, WithIds(<<SubscriberPool[1]>>))
\* a BILLS.csv without the optional credit_adjustment column
DefaultBills ==
    Table(BillColumns \ {"credit_adjustment"},
          WithoutCredit(<<BillPool[1], BillPool[2], BillPool[3], BillPool[5]>>))
DefaultTickets ==
    Table(TicketColumns, <<TicketPool[1]>>)

\* one subscriber, every plan type, plan name and tenure
TierInputs ==
    /\ \E pt \in PlanTypes, pn \in PlanNames, td \in TenureDays :
          subscribers = AddServiceTier(
              Table(SubscriberColumns, WithIds(<<Sub("Dubai", pt, pn, "Active", td)>>)),
              now)
    /\ bills = DefaultBills
    /\ tickets = DefaultTickets

FilterInputs ==
    /\ \E rows \in RowsOver(SubscriberPool, MaxSubs) :
          subscribers = AddServiceTier(Table(SubscriberColumns, WithIds(rows)), now)
    /\ bills = DefaultBills
    /\ tickets = DefaultTickets

ExecutiveInputs ==
    /\ subscribers = AddServiceTier(
                         Table(SubscriberColumns, WithIds(ExecSubscribers)), now)
    /\ \E rows \in RowsOver(BillPool, MaxBills) :
          bills = Table(BillColumns, rows)
    /\ tickets = DefaultTickets

ManagerInputs ==
    /\ subscribers = AddServiceTier(DefaultSubscribers, now)
    /\ bills = DefaultBills
    /\ \E rows \in RowsOver(TicketPool, MaxTickets) :
          tickets = Table(TicketColumns, rows)

\* sorted(subscribers['city'].unique())[:3], line 169
CityOrder == <<"Abu Dhabi", "Dubai">>
DefaultCities ==
    LET present == SelectSeq(CityOrder, LAMBDA c : c \in Unique(subscribers, "city"))
    IN  {present[i] : i \in 1..(IF Len(present) < 3 THEN Len(present) ELSE 3)}

Min(S) == CHOOSE x \in S : \A y \in S : x <= y
Max(S) == CHOOSE x \in S : \A y \in S : x >= y

\* (bills['billing_date'].min().date(), bills['billing_date'].max().date())
DefaultDateRange ==
    <<DateOf(Min(Unique(bills, "billing_date"))),
      DateOf(Max(Unique(bills, "billing_date")))>>

\* the first run: every widget has its default value
FirstRun ==
    LET dr == DefaultDateRange
        c == DefaultCities
        pt == Unique(subscribers, "plan_type")
        pn == Unique(subscribers, "plan_name")
        tc == Unique(tickets, "ticket_category")
        ss == Unique(subscribers, "subscriber_status")
        fs == FilterSubscribers(subscribers, c, pt, pn, ss)
        fb == FilterBills(bills, fs, dr)
        ft == FilterTickets(tickets, dr, tc)
    IN  /\ date_range = dr
        /\ cities = c
        /\ plan_types = pt
        /\ plan_names = pn
        /\ ticket_categories = tc
        /\ subscriber_status = ss
        /\ view_type = "Executive View"
        /\ filtered_subscribers = fs
        /\ filtered_bills = fb
        /\ filtered_tickets = ft
        /\ exec_kpis = calculate_executive_kpis(fs, fb, ft)
        /\ ops_kpis = NoKpis

\* no run of the script calls flag_anomalies
InitNow ==
    /\ now = Day(Today) + Hours(12)
    /\ series = <<>>
    /\ anomalies = <<>>

InitTier == InitNow /\ TierInputs /\ FirstRun
InitFilter == InitNow /\ FilterInputs /\ FirstRun
InitExecutive == InitNow /\ ExecutiveInputs /\ FirstRun
InitManager == InitNow /\ ManagerInputs /\ FirstRun

Init == InitTier \/ InitFilter \/ InitExecutive \/ InitManager

Next ==
    \/ ChangeDateRange
    \/ ChangeCities
    \/ ChangePlanTypes
    \/ ChangePlanNames
    \/ ChangeTicketCategories
    \/ ChangeSubscriberStatus
    \/ ChangeView

Spec == Init /\ [][Next]_vars

\* the same dashboard over each family of input tables
SpecTier == InitTier /\ [][Next]_vars
SpecFilter == InitFilter /\ [][Next]_vars
SpecExecutive == InitExecutive /\ [][Next]_vars
SpecManager == InitManager /\ [][Next]_vars

----------------------------------------------------------------------------
(* The dashboard as time passes: the same page is run again later, and the
   run takes datetime.now() anew, line 153 *)

TimeSteps == {Day(1), Day(DaysPerMonth)}

LastNow == Day(Today + MaxMonths * DaysPerMonth) + Hours(12)

\* the clock between two runs
Tick == \E d \in TimeSteps : now + d <= LastNow /\ now' = now + d

Rerun ==
    /\ Tick
    /\ RunAt(now', date_range, cities, plan_types, plan_names,
             ticket_categories, subscriber_status, view_type)

\* one subscriber who signs up today, every plan type and plan name
TenureInputs ==
    /\ \E pt \in PlanTypes, pn \in PlanNames :
          subscribers = AddServiceTier(
              Table(SubscriberColumns, WithIds(<<Sub("Dubai", pt, pn, "Active", 0)>>)),
              now)
    /\ bills = DefaultBills
    /\ tickets = DefaultTickets

InitTenure == InitNow /\ TenureInputs /\ FirstRun

\* the page keeps being run while time passes: every step is a Rerun, so a
\* step of the clock is a run
SpecTenure == InitTenure /\ [][Rerun]_vars /\ WF_now(Tick)

----------------------------------------------------------------------------
(* flag_anomalies as a utility: called on a series, outside the runs *)

SeriesValues == {0, 1, 2, 5}
ExampleSeries == <<1, 2, 2, 3, 3, 3, 4, 4, 50>>

SeriesInputs ==
    UNION {[1..n -> SeriesValues] : n \in 0..MaxSeries} \cup {ExampleSeries}

FlagAnomalies ==
    \E s \in SeriesInputs :
        /\ series' = s
        /\ anomalies' = flag_anomalies(s)
        /\ UNCHANGED <<subscribers, bills, tickets, now, date_range, cities,
                       plan_types, plan_names, ticket_categories,
                       subscriber_status, view_type, filtered_subscribers,
                       filtered_bills, filtered_tickets, exec_kpis, ops_kpis>>

InitAnomaly ==
    /\ InitNow
    /\ subscribers = AddServiceTier(DefaultSubscribers, now)
    /\ bills = DefaultBills
    /\ tickets = DefaultTickets
    /\ FirstRun

SpecAnomaly == InitAnomaly /\ [][FlagAnomalies]_vars

----------------------------------------------------------------------------
(* Properties *)

Rows(table) == {table.rows[i] : i \in DOMAIN table.rows}

RECURSIVE SumOver(_, _, _)
\* the sum of column col over the rows with an index in idx
SumOver(rows, col, idx) ==
    IF idx = {} THEN 0
    ELSE LET i == CHOOSE j \in idx : TRUE
         IN  rows[i][col] + SumOver(rows, col, idx \ {i})

P1 == "Priority 1 (Critical)"
P2 == "Priority 2 (High)"
P3 == "Priority 3 (Standard)"
P4 == "Priority 4 (Basic)"

\* C1: every subscriber's service tier is the first matching rule's: not
\* Postpaid gives Priority 4; Postpaid gives Priority 1 if the plan is
\* Unlimited or the tenure is above 36 months, else Priority 2 if the plan is
\* Premium or the tenure is above 12 months, else Priority 3.  A tenure of
\* exactly 36 or exactly 12 months does not trigger the tenure clause.
C1_TierRules ==
    \A i \in DOMAIN subscribers.rows :
        LET r == subscribers.rows[i]
            t == TenureMonths(now, r.signup_date)
            tier == r.service_tier
        IN  /\ tier \in {P1, P2, P3, P4}
            /\ r.plan_type # "Postpaid" => tier = P4
            /\ r.plan_type = "Postpaid" =>
                  /\ (r.plan_name = "Unlimited" \/ t > 36) => tier = P1
                  /\ (r.plan_name # "Unlimited" /\ t <= 36
                        /\ (r.plan_name = "Premium" \/ t > 12)) => tier = P2
                  /\ (r.plan_name \notin {"Unlimited", "Premium"} /\ t <= 12)
                        => tier = P3
                  /\ (r.plan_name = "Standard" /\ t = 36) => tier = P2
                  /\ (r.plan_name = "Standard" /\ t = 12) => tier = P3
                  /\ (r.plan_name \in {"Unlimited", "Premium"} /\ t = 40)
                        => tier = P1

\* a Postpaid Premium subscriber of 40 months has been classified Priority 1
C1_Witness ==
    \E i \in DOMAIN subscribers.rows :
        LET r == subscribers.rows[i]
        IN  /\ r.plan_type = "Postpaid"
            /\ r.plan_name = "Premium"
            /\ TenureMonths(now, r.signup_date) = 40
            /\ r.service_tier = P1

Exec == view_type = "Executive View"

PrepaidIds ==
    {r.subscriber_id : r \in {x \in Rows(filtered_subscribers) : x.plan_type = "Prepaid"}}

PrepaidBillIdx ==
    {i \in DOMAIN filtered_bills.rows : filtered_bills.rows[i].subscriber_id \in PrepaidIds}

BillTotal == SumOver(filtered_bills.rows, "bill_amount", DOMAIN filtered_bills.rows)

ActiveIdx ==
    {i \in DOMAIN filtered_subscribers.rows :
        filtered_subscribers.rows[i].subscriber_status = "Active"}

\* C2: postpaid_pct = 100 - prepaid_pct; with a positive total revenue
\* prepaid_pct is the share of bill_amount on the bills of Prepaid subscribers
\* and the two add up to 100; with a zero total revenue prepaid_pct = 0 and
\* postpaid_pct = 100.
C2_RevenueMix ==
    Exec =>
        /\ exec_kpis.postpaid_pct = RatSub(Num(100), exec_kpis.prepaid_pct)
        /\ BillTotal > 0 =>
              /\ RatAdd(exec_kpis.prepaid_pct, exec_kpis.postpaid_pct) = Num(100)
              /\ exec_kpis.prepaid_pct.den > 0
              /\ exec_kpis.prepaid_pct.num * BillTotal =
                    100 * SumOver(filtered_bills.rows, "bill_amount", PrepaidBillIdx)
                        * exec_kpis.prepaid_pct.den
        /\ BillTotal = 0 =>
              /\ exec_kpis.prepaid_pct = Num(0)
              /\ exec_kpis.postpaid_pct = Num(100)

\* Prepaid and Postpaid subscribers both have revenue: the mix is 25 to 75
C2_Witness ==
    /\ Exec
    /\ BillTotal = 40
    /\ exec_kpis.prepaid_pct = Num(25)
    /\ exec_kpis.postpaid_pct = Num(75)

EmptyInputs ==
    /\ Exec
    /\ filtered_subscribers.rows = <<>>
    /\ filtered_bills.rows = <<>>

\* C3 as claimed: with empty filtered subscribers and bills every metric of
\* the executive map is 0.
C3_AllZero ==
    EmptyInputs =>
        \A k \in {"total_revenue", "arpu", "prepaid_pct", "postpaid_pct",
                  "retention_ratio", "overdue_revenue", "credit_adjustments"} :
            exec_kpis[k] = Num(0)

\* C3 amended: with empty filtered subscribers and bills the executive map has
\* its seven metrics, postpaid_pct is 100 and every other metric is 0.
C3_AllZeroButPostpaid ==
    EmptyInputs =>
        /\ DOMAIN exec_kpis =
              {"total_revenue", "arpu", "prepaid_pct", "postpaid_pct",
               "retention_ratio", "overdue_revenue", "credit_adjustments"}
        /\ \A k \in DOMAIN exec_kpis \ {"postpaid_pct"} : exec_kpis[k] = Num(0)
        /\ exec_kpis.postpaid_pct = Num(100)

\* the executive aggregator has run on empty tables of a non-empty data set
C3_Witness ==
    /\ EmptyInputs
    /\ subscribers.rows # <<>>
    /\ bills.rows # <<>>
    /\ exec_kpis # NoKpis

\* C7: arpu is total_revenue over the number of Active subscribers when there
\* is one, and 0 when there is none, whatever the revenue; total_revenue is
\* the exact sum of bill_amount over the filtered bills, 0 when there is none.
C7_Arpu ==
    Exec =>
        /\ exec_kpis.total_revenue = Num(BillTotal)
        /\ filtered_bills.rows = <<>> => exec_kpis.total_revenue = Num(0)
        /\ ActiveIdx # {} =>
              /\ exec_kpis.arpu.den > 0
              /\ exec_kpis.arpu.num * Cardinality(ActiveIdx) =
                    BillTotal * exec_kpis.arpu.den
        /\ ActiveIdx = {} => exec_kpis.arpu = Num(0)

\* revenue but no Active subscriber: arpu is 0
C7_Witness ==
    /\ Exec
    /\ ActiveIdx = {}
    /\ BillTotal > 0
    /\ exec_kpis.total_revenue = Num(BillTotal)
    /\ exec_kpis.arpu = Num(0)

\* retention_ratio of the filtered subscribers with row i made Active
WithActive(i) ==
    Table(filtered_subscribers.columns,
          [filtered_subscribers.rows EXCEPT ![i].subscriber_status = "Active"])

\* C8: retention_ratio is within [0, 100], is 100 * Active / total for a
\* non-empty table and 0 for an empty one, and making one more subscriber
\* Active never lowers it.
C8_Retention ==
    Exec =>
        LET r == exec_kpis.retention_ratio
            n == Len(filtered_subscribers.rows)
        IN  /\ RatLeq(Num(0), r) /\ RatLeq(r, Num(100))
            /\ n > 0 => r.num * n = 100 * Cardinality(ActiveIdx) * r.den
            /\ n = 0 => r = Num(0)
            /\ \A i \in DOMAIN filtered_subscribers.rows \ ActiveIdx :
                  RatLeq(r, retention_ratio(WithActive(i)))

\* one Active subscriber of two: retention is 50
C8_Witness ==
    /\ Exec
    /\ Len(filtered_subscribers.rows) = 2
    /\ Cardinality(ActiveIdx) = 1
    /\ exec_kpis.retention_ratio = Num(50)

Mgr == view_type = "Manager View"

ResolvedIdx ==
    {i \in DOMAIN filtered_tickets.rows : filtered_tickets.rows[i].status = "Resolved"}

\* the Resolved tickets with a resolution date
DatedIdx == {i \in ResolvedIdx : filtered_tickets.rows[i].resolution_date # NaT}

\* seconds from ticket_date to resolution_date
Seconds(i) ==
    filtered_tickets.rows[i].resolution_date - filtered_tickets.rows[i].ticket_date

RECURSIVE SecondsOver(_)
SecondsOver(idx) ==
    IF idx = {} THEN 0
    ELSE LET i == CHOOSE j \in idx : TRUE IN Seconds(i) + SecondsOver(idx \ {i})

CompliantIdx ==
    {i \in DatedIdx :
        Seconds(i) <= filtered_tickets.rows[i].sla_target_hours * SecondsPerHour}

\* C4 as claimed: avg_resolution_time is the mean of resolution_hours over
\* the Resolved tickets, and 0 when there is no Resolved ticket.
C4_AvgResolutionTime ==
    Mgr =>
        LET a == ops_kpis.avg_resolution_time
        IN  /\ DatedIdx # {} =>
                  /\ a.den > 0
                  /\ a.num * SecondsPerHour * Cardinality(DatedIdx) =
                        SecondsOver(DatedIdx) * a.den
            /\ ResolvedIdx = {} => a = Num(0)

\* the filtered tickets without the Resolved tickets that have no
\* resolution date
WithoutUndated ==
    Table(filtered_tickets.columns,
          SelectSeq(filtered_tickets.rows,
                    LAMBDA r : ~(r.status = "Resolved" /\ r.resolution_date = NaT)))

\* C5 as claimed: a Resolved ticket without a resolution date counts in
\* total_tickets and in nothing else: sla_compliance and avg_resolution_time
\* are what they are without these tickets.
C5_UndatedExcluded ==
    Mgr =>
        /\ ops_kpis.total_tickets = Num(Len(filtered_tickets.rows))
        /\ ops_kpis.avg_resolution_time =
              calculate_manager_kpis(WithoutUndated).kpis.avg_resolution_time
        /\ ops_kpis.sla_compliance =
              calculate_manager_kpis(WithoutUndated).kpis.sla_compliance

\* the filtered tickets are two Resolved tickets of 2 and 6 hours, target 4
TwoAndSix ==
    /\ Len(filtered_tickets.rows) = 2
    /\ ResolvedIdx = {1, 2}
    /\ {Seconds(1), Seconds(2)} = {2 * SecondsPerHour, 6 * SecondsPerHour}
    /\ \A i \in {1, 2} : filtered_tickets.rows[i].sla_target_hours = 4

\* C6: sla_compliance is 100 * (Resolved tickets resolved within
\* sla_target_hours, boundary included) / (Resolved tickets), 0 when no
\* ticket is Resolved, within [0, 100] and independent of the tickets that
\* are not Resolved; two Resolved tickets of 2 and 6 hours against a target
\* of 4 give sla_compliance 50 and avg_resolution_time 4.
C6_SlaCompliance ==
    Mgr =>
        LET c == ops_kpis.sla_compliance
            OnlyResolved ==
                Table(filtered_tickets.columns,
                      SelectSeq(filtered_tickets.rows, LAMBDA r : r.status = "Resolved"))
        IN  /\ ResolvedIdx # {} =>
                  /\ c.den > 0
                  /\ c.num * Cardinality(ResolvedIdx) =
                        100 * Cardinality(CompliantIdx) * c.den
            /\ ResolvedIdx = {} => c = Num(0)
            /\ RatLeq(Num(0), c) /\ RatLeq(c, Num(100))
            /\ c = calculate_manager_kpis(OnlyResolved).kpis.sla_compliance
            /\ TwoAndSix =>
                  /\ c = Num(50)
                  /\ ops_kpis.avg_resolution_time = Num(4)

\* of two Resolved tickets, the one resolved in exactly sla_target_hours has
\* been counted compliant and the one resolved a second later has not
C6_Witness ==
    /\ Mgr
    /\ Cardinality(ResolvedIdx) = 2
    /\ \E i \in ResolvedIdx :
          Seconds(i) = filtered_tickets.rows[i].sla_target_hours * SecondsPerHour
    /\ \E i \in ResolvedIdx :
          Seconds(i) = filtered_tickets.rows[i].sla_target_hours * SecondsPerHour + 1
    /\ ops_kpis.sla_compliance = Num(50)

\* C9: the filtered subscribers are exactly the subscribers whose city, plan
\* type, plan name and status are all selected; the filtered bills are
\* exactly the bills of a filtered subscriber dated from the start to the end
\* of the date range, both days included; so every filtered bill has its
\* subscriber among the filtered subscribers.
C9_Filters ==
    LET kept == {r \in Rows(subscribers) :
                    /\ r.city \in cities
                    /\ r.plan_type \in plan_types
                    /\ r.plan_name \in plan_names
                    /\ r.subscriber_status \in subscriber_status}
        ids == {r.subscriber_id : r \in kept}
        billed == {b \in Rows(bills) :
                      /\ b.subscriber_id \in ids
                      /\ date_range[1] * SecondsPerDay <= b.billing_date
                      /\ b.billing_date < (date_range[2] + 1) * SecondsPerDay}
    IN  /\ Rows(filtered_subscribers) = kept
        /\ Len(filtered_subscribers.rows) = Cardinality(kept)
        /\ Rows(filtered_bills) = billed
        /\ Len(filtered_bills.rows) = Cardinality(billed)
        /\ \A b \in Rows(filtered_bills) :
              \E r \in Rows(filtered_subscribers) : r.subscriber_id = b.subscriber_id

\* after filter changes: a subscriber with a bill is filtered out, a bill of
\* the afternoon of the last day of the range is in, and a bill of a
\* subscriber nobody knows is in the data
C9_Witness ==
    /\ Len(filtered_subscribers.rows) < Len(subscribers.rows)
    /\ \E b \in Rows(bills) :
          /\ b \notin Rows(filtered_bills)
          /\ DateOf(b.billing_date) \in date_range[1]..date_range[2]
          /\ \E r \in Rows(subscribers) : r.subscriber_id = b.subscriber_id
    /\ \E b \in Rows(bills) :
          \A r \in Rows(subscribers) : r.subscriber_id # b.subscriber_id
    /\ \E b \in Rows(filtered_bills) :
          /\ DateOf(b.billing_date) = date_range[2]
          /\ b.billing_date > date_range[2] * SecondsPerDay
    /\ cities # DefaultCities

Ascending ==
    [k \in DOMAIN series |->
        CHOOSE x \in {series[i] : i \in DOMAIN series} :
            /\ Cardinality({i \in DOMAIN series : series[i] < x}) < k
            /\ Cardinality({i \in DOMAIN series : series[i] <= x}) >= k]

\* four times the quantile k / 4 of the series, linear interpolation
Quartile4(k) ==
    LET h == (Len(series) - 1) * k
        lo == h \div 4
        r == h % 4
    IN  IF r = 0 THEN 4 * Ascending[lo + 1]
        ELSE (4 - r) * Ascending[lo + 1] + r * Ascending[lo + 2]

\* eight times Q3 + 1.5 * (Q3 - Q1)
Upper8 == 5 * Quartile4(3) - 3 * Quartile4(1)

\* C11: flag_anomalies flags exactly the elements strictly greater than
\* Q3 + 1.5 * (Q3 - Q1), Q1 and Q3 the quartiles with linear interpolation: an
\* element equal to the bound is not flagged, no element below Q1 is.  For
\* [1,2,2,3,3,3,4,4,50]: Q1 = 2, Q3 = 4, the bound is 7 and only 50 is flagged.
C11_FlagAnomalies ==
    /\ DOMAIN anomalies = DOMAIN series
    /\ series # <<>> =>
          /\ \A i \in DOMAIN series : anomalies[i] <=> (8 * series[i] > Upper8)
          /\ \A i \in DOMAIN series : 8 * series[i] = Upper8 => ~anomalies[i]
          /\ \A i \in DOMAIN series : 4 * series[i] < Quartile4(1) => ~anomalies[i]
    /\ series = ExampleSeries =>
          /\ Quantile(series, 1, 4) = Num(2)
          /\ Quantile(series, 3, 4) = Num(4)
          /\ UpperBound(series) = Num(7)
          /\ anomalies = [i \in 1..9 |-> i = 9]

\* a series whose largest element is equal to the bound and not flagged,
\* with the quartiles between two elements
C11_Witness ==
    /\ Len(series) = 4
    /\ Quartile4(3) % 4 # 0
    /\ \E i \in DOMAIN series :
          /\ 8 * series[i] = Upper8
          /\ 4 * series[i] > Quartile4(3)
          /\ ~anomalies[i]

\* the priority number of a tier
Rank(tier) ==
    CASE tier = P1 -> 1 [] tier = P2 -> 2 [] tier = P3 -> 3 [] tier = P4 -> 4

\* whole periods of 30 days from the signup of subscriber i to now
MonthsSince(i) ==
    (now - subscribers.rows[i].signup_date) \div (DaysPerMonth * SecondsPerDay)

Postpaid(i) == subscribers.rows[i].plan_type = "Postpaid"

TierOf(i) == subscribers.rows[i].service_tier

\* C12: as time passes, with plan type and plan name fixed, the priority
\* number of a subscriber never increases, Priority 1 is never left, a
\* Postpaid subscriber is at Priority 1 once the tenure exceeds 36 months and
\* gets there, and a subscriber that is not Postpaid is always at Priority 4.
C12_TierOverTime ==
    /\ [](\A i \in DOMAIN subscribers.rows :
            /\ ~Postpaid(i) => TierOf(i) = P4
            /\ (Postpaid(i) /\ MonthsSince(i) > 36) => TierOf(i) = P1)
    /\ [][\A i \in DOMAIN subscribers.rows :
            /\ Rank(subscribers'.rows[i].service_tier) <= Rank(TierOf(i))
            /\ TierOf(i) = P1 => subscribers'.rows[i].service_tier = P1]_vars
    /\ <>(\A i \in DOMAIN subscribers.rows : Postpaid(i) => TierOf(i) = P1)

\* a Postpaid Standard subscriber who signed up at the first run is at
\* Priority 1 in a run of the 37th month
C12_Witness ==
    \E i \in DOMAIN subscribers.rows :
        /\ Postpaid(i)
        /\ subscribers.rows[i].plan_name = "Standard"
        /\ MonthsSince(i) = 37
        /\ TierOf(i) = P1

====
